---- MODULE Spec2Model ----
(***************************************************************************)
(* Model of the astrbox native extension (src/astrbox/src/lib.rs).         *)
(*                                                                         *)
(* The crate declares one #[pyfunction], hello_from_bin, and one           *)
(* declarative #[pymodule], core, which exports hello_from_bin and holds a *)
(* nested #[pymodule] cli that exports the same function again.            *)
(*                                                                         *)
(* The state machine is the load of the extension by the host interpreter  *)
(* (the module initialiser running the declarations of `mod core` in       *)
(* declaration order, then returning the module to the host), followed by  *)
(* host callers that resolve dotted paths in the returned module and call  *)
(* what they find.                                                         *)
(***************************************************************************)
EXTENDS Integers, Sequences, FiniteSets, TLC

\* ------------------------------------------------------------------ bounds
\* number of concurrent host callers
NumCallers == 2
\* calls each caller makes at most
MaxCalls == 2

Callers == 1..NumCallers

VARIABLES
    pc,        \* position of the module initialiser
    mods,      \* heap of module objects: sequence of [name, dict]; id = index
    nextObj,   \* id of the next function object the initialiser creates
    hostRoot,  \* module handle the host loader holds (0 = none)
    handoffs,  \* number of times a module was handed to the host loader
    cpc,       \* per caller: "idle" | "resolved"
    cref,      \* per caller: the value its last lookup resolved to
    ctarget,   \* per caller: the (path, name) of its last lookup
    cres       \* per caller: the sequence of calls it has completed

vars == <<pc, mods, nextObj, hostRoot, handoffs, cpc, cref, ctarget, cres>>

\* ------------------------------------------------------- function registry
\* a function whose result depends on whether it was called before
hello_from_bin_stateful ==
    IF \E c \in Callers : Len(cres[c]) > 0
    THEN "Hello again from astrbox!" ELSE "Hello from astrbox!"

\* a function returning another text
hello_from_bin_other == "Hello from astrbox"

\* fn hello_from_bin() -> String { "Hello from astrbox!".to_string() }
hello_from_bin == "Hello from astrbox!"

\* the item `hello_from_bin` of the crate root
crate_hello_from_bin == "crate::hello_from_bin"

\* mod core: `use super::hello_from_bin;` names the crate root's item
core_hello_from_bin == crate_hello_from_bin

\* a second implementation with the same body, private to cli
cli_hello_from_bin_copy == "crate::core::cli::hello_from_bin"

\* mod cli: `use super::hello_from_bin;` names core's import of the item
cli_hello_from_bin == core_hello_from_bin

\* running the native routine an implementation path names; the crate has
\* one routine, it takes no arguments and reads no state
call(impl) == hello_from_bin

\* ------------------------------------------------------------ module heap
NoVal == [kind |-> "none"]
FnVal(obj, impl) == [kind |-> "fn", obj |-> obj, impl |-> impl]
ModVal(id) == [kind |-> "mod", id |-> id]

ModIds(h) == 1..Len(h)

\* a new, empty module object named n
new_module(h, n) == Append(h, [name |-> n, dict |-> {}])

\* setting attribute key of a module dictionary: replaces any older binding
setattr(d, key, val) ==
    {b \in d : b.key # key} \cup {[key |-> key, val |-> val]}

\* reading attribute key of module m
getattr(h, m, key) ==
    IF m \in ModIds(h) /\ \E b \in h[m].dict : b.key = key
    THEN (CHOOSE b \in h[m].dict : b.key = key).val
    ELSE NoVal

\* an export that binds nothing
add_function_noop(h, m, name, obj, impl) == h

\* #[pymodule_export] use ...::name;  binds name in module m to a function
\* object obj wrapping the implementation impl
add_function(h, m, name, obj, impl) ==
    [h EXCEPT ![m].dict = setattr(@, name, FnVal(obj, impl))]

\* a nested module that is never attached to its parent
add_submodule_detached(h, parent, child) == h

\* a nested module that also holds its parent
add_submodule_backref(h, parent, child) ==
    [h EXCEPT ![parent].dict = setattr(@, h[child].name, ModVal(child)),
              ![child].dict = setattr(@, h[parent].name, ModVal(parent))]

\* #[pymodule] mod child inside mod parent: binds the child's name in parent
add_submodule(h, parent, child) ==
    [h EXCEPT ![parent].dict = setattr(@, h[child].name, ModVal(child))]

\* -------------------------------------------------------------- resolution
RECURSIVE walk(_, _, _)
\* module reached from module m by following the components of rest
walk(h, m, rest) ==
    IF rest = <<>> THEN m
    ELSE LET v == getattr(h, m, Head(rest))
         IN IF v.kind = "mod" THEN walk(h, v.id, Tail(rest)) ELSE 0

\* module a dotted path names, starting at the module the host holds;
\* the first component is the name of that module (0 = no such module)
node_at(h, root, path) ==
    IF root \in ModIds(h) /\ path # <<>> /\ h[root].name = Head(path)
    THEN walk(h, root, Tail(path))
    ELSE 0

\* value of path.name (NoVal = the lookup fails)
resolve(h, root, path, name) == getattr(h, node_at(h, root, path), name)

\* ------------------------------------------------------------------ layout
\* the namespace layout the crate declares, in declaration order
Layout ==
    << [path |-> <<"core">>, name |-> "hello_from_bin",
        func |-> core_hello_from_bin],
       [path |-> <<"core", "cli">>, name |-> "hello_from_bin",
        func |-> cli_hello_from_bin] >>

\* the (path, name) pairs a host caller may ask for
Targets ==
    { <<Layout[i].path, Layout[i].name>> : i \in DOMAIN Layout }
    \cup { << <<"core">>, "cli" >>, << <<"core", "cli">>, "missing" >> }

\* --------------------------------------------------------------- the load
Init ==
    /\ pc = "start"
    /\ mods = <<>>
    /\ nextObj = 1
    /\ hostRoot = 0
    /\ handoffs = 0
    /\ cpc = [c \in Callers |-> "idle"]
    /\ cref = [c \in Callers |-> NoVal]
    /\ ctarget = [c \in Callers |-> << <<>>, "" >>]
    /\ cres = [c \in Callers |-> <<>>]

callerVars == <<cpc, cref, ctarget, cres>>

\* the host can see the module as soon as it exists
CreateCore_published ==
    /\ pc = "start"
    /\ mods' = new_module(mods, "core")
    /\ pc' = "core_created"
    /\ hostRoot' = Len(mods) + 1
    /\ UNCHANGED <<nextObj, handoffs, callerVars>>

\* the host calls the entry point: the module object core is created
CreateCore ==
    /\ pc = "start"
    /\ mods' = new_module(mods, "core")
    /\ pc' = "core_created"
    /\ UNCHANGED <<nextObj, hostRoot, handoffs, callerVars>>

\* core: #[pymodule_export] use super::hello_from_bin;
ExportToCore ==
    /\ pc = "core_created"
    /\ mods' = add_function(mods, 1, "hello_from_bin", nextObj,
                            core_hello_from_bin)
    /\ nextObj' = nextObj + 1
    /\ pc' = "core_exported"
    /\ UNCHANGED <<hostRoot, handoffs, callerVars>>

\* core: #[pymodule] mod cli  -- the module object cli is created
CreateCli ==
    /\ pc = "core_exported"
    /\ mods' = new_module(mods, "cli")
    /\ pc' = "cli_created"
    /\ UNCHANGED <<nextObj, hostRoot, handoffs, callerVars>>

\* cli: #[pymodule_export] use super::hello_from_bin;
ExportToCli ==
    /\ pc = "cli_created"
    /\ mods' = add_function(mods, 2, "hello_from_bin", nextObj,
                            cli_hello_from_bin)
    /\ nextObj' = nextObj + 1
    /\ pc' = "cli_exported"
    /\ UNCHANGED <<hostRoot, handoffs, callerVars>>

\* the initialised cli is attached to core
AttachCli ==
    /\ pc = "cli_exported"
    /\ mods' = add_submodule(mods, 1, 2)
    /\ pc' = "built"
    /\ UNCHANGED <<nextObj, hostRoot, handoffs, callerVars>>

\* the initialiser returns core to the host loader
HandOff ==
    /\ pc = "built"
    /\ hostRoot' = 1
    /\ handoffs' = handoffs + 1
    /\ pc' = "done"
    /\ UNCHANGED <<mods, nextObj, callerVars>>

InProgress == {"core_created", "core_exported", "cli_created", "cli_exported"}

\* a failed step that still returns what was built so far
FailStep_partial ==
    /\ pc \in InProgress
    /\ pc' = "failed"
    /\ hostRoot' = 1
    /\ handoffs' = handoffs + 1
    /\ UNCHANGED <<mods, nextObj, callerVars>>

\* a step of the initialiser reports an error: the initialiser returns the
\* error and no module reaches the host
FailStep ==
    /\ pc \in InProgress
    /\ pc' = "failed"
    /\ UNCHANGED <<mods, nextObj, hostRoot, handoffs, callerVars>>

\* ------------------------------------------------------------ host callers
\* caller c resolves path.name in the module the host holds
Lookup(c, t) ==
    /\ cpc[c] = "idle"
    /\ Len(cres[c]) < MaxCalls
    /\ LET v == resolve(mods, hostRoot, t[1], t[2])
       IN /\ v.kind = "fn"
          /\ cref' = [cref EXCEPT ![c] = v]
    /\ ctarget' = [ctarget EXCEPT ![c] = t]
    /\ cpc' = [cpc EXCEPT ![c] = "resolved"]
    /\ UNCHANGED <<pc, mods, nextObj, hostRoot, handoffs, cres>>

\* caller c asks for something that is not a function: the lookup gives
\* nothing callable and the caller stays where it is
LookupFails(c, t) ==
    /\ cpc[c] = "idle"
    /\ Len(cres[c]) < MaxCalls
    /\ resolve(mods, hostRoot, t[1], t[2]).kind # "fn"
    /\ ctarget' = [ctarget EXCEPT ![c] = t]
    /\ cref' = [cref EXCEPT ![c] = NoVal]
    /\ UNCHANGED <<pc, mods, nextObj, hostRoot, handoffs, cpc, cres>>

\* a call that rebinds the name it was reached through
Invoke_rebinding(c) ==
    /\ cpc[c] = "resolved"
    /\ cres' = [cres EXCEPT ![c] = Append(@,
                   [path |-> ctarget[c][1], name |-> ctarget[c][2],
                    obj |-> cref[c].obj, impl |-> cref[c].impl,
                    text |-> call(cref[c].impl)])]
    /\ cpc' = [cpc EXCEPT ![c] = "idle"]
    /\ mods' = add_function(mods, node_at(mods, hostRoot, ctarget[c][1]),
                            ctarget[c][2], nextObj, cref[c].impl)
    /\ nextObj' = nextObj + 1
    /\ UNCHANGED <<pc, hostRoot, handoffs, cref, ctarget>>

\* caller c calls the function it resolved, with no arguments
Invoke(c) ==
    /\ cpc[c] = "resolved"
    /\ cres' = [cres EXCEPT ![c] = Append(@,
                   [path |-> ctarget[c][1], name |-> ctarget[c][2],
                    obj |-> cref[c].obj, impl |-> cref[c].impl,
                    text |-> call(cref[c].impl)])]
    /\ cpc' = [cpc EXCEPT ![c] = "idle"]
    /\ UNCHANGED <<pc, mods, nextObj, hostRoot, handoffs, cref, ctarget>>

Next ==
    \/ CreateCore
    \/ ExportToCore
    \/ CreateCli
    \/ ExportToCli
    \/ AttachCli
    \/ HandOff
    \/ FailStep
    \/ \E c \in Callers, t \in Targets : Lookup(c, t)
    \/ \E c \in Callers, t \in Targets : LookupFails(c, t)
    \/ \E c \in Callers : Invoke(c)

Spec == Init /\ [][Next]_vars

\* ------------------------------------------------------------- properties
BuildSteps == {"start"} \cup InProgress \cup {"built"}
Built == pc \in {"built", "done"}

\* all completed calls, of every caller
Calls == UNION { {cres[c][i] : i \in DOMAIN cres[c]} : c \in Callers }

\* modules bound directly in module m
Children(h, m) ==
    {b.val.id : b \in {x \in h[m].dict : x.val.kind = "mod"}}

RECURSIVE ReachIn(_, _, _)
\* modules reachable from the set S in at most n further steps
ReachIn(h, S, n) ==
    IF n = 0 THEN S
    ELSE ReachIn(h, S \cup UNION {Children(h, m) : m \in S}, n - 1)

\* modules reachable from m in at least one step
Below(h, m) == ReachIn(h, Children(h, m), Len(h))

Parents(h, m) == {p \in ModIds(h) : m \in Children(h, p)}

C3_SameImplementation ==
    /\ Built =>
         LET a == resolve(mods, 1, <<"core">>, "hello_from_bin")
             b == resolve(mods, 1, <<"core", "cli">>, "hello_from_bin")
         IN a.kind = "fn" /\ b.kind = "fn" /\ a.impl = b.impl
    /\ \A r1, r2 \in Calls : r1.name = r2.name => r1.impl = r2.impl

C3_Witness ==
    \E c1, c2 \in Callers :
       /\ cpc[c1] = "resolved" /\ cpc[c2] = "resolved"
       /\ ctarget[c1][1] = <<"core">> /\ ctarget[c2][1] = <<"core", "cli">>
       /\ cref[c1].obj # cref[c2].obj

\* C4: core.hello_from_bin() and core.cli.hello_from_bin() both return
\* "Hello from astrbox!".
C4_BothPathsReturnHello ==
    /\ \A r \in Calls :
          r.path \in {<<"core">>, <<"core", "cli">>}
             => r.text = "Hello from astrbox!"
    /\ pc = "done" =>
          \A c \in Callers :
             (cpc[c] = "idle" /\ Len(cres[c]) < MaxCalls) =>
                /\ ENABLED Lookup(c, << <<"core">>, "hello_from_bin" >>)
                /\ ENABLED Lookup(c, << <<"core", "cli">>, "hello_from_bin" >>)

C4_Witness ==
    /\ \E r \in Calls : r.path = <<"core">> /\ r.name = "hello_from_bin"
    /\ \E r \in Calls : r.path = <<"core", "cli">> /\ r.name = "hello_from_bin"

\* C5: a module the host holds is a fully built one, and a failed build
\* hands nothing to the host.
C5_FailClosed ==
    /\ hostRoot # 0 =>
         /\ pc = "done"
         /\ \A i \in DOMAIN Layout :
               resolve(mods, hostRoot, Layout[i].path, Layout[i].name).kind
                  = "fn"
    /\ pc = "failed" => hostRoot = 0 /\ handoffs = 0

C5_Witness == pc = "failed" /\ Len(mods) = 2 /\ hostRoot = 0

\* C6: the module is handed to the host exactly once, and from the hand-off
\* on no step changes the module tree or the handle the host holds.
C6_HandedOffOnceThenFrozen ==
    /\ [](handoffs <= 1 /\ (hostRoot # 0 <=> handoffs = 1))
    /\ [][hostRoot # 0 => (mods' = mods /\ hostRoot' = hostRoot)]_vars

C6_Witness ==
    /\ handoffs = 1
    /\ \A c \in Callers : Len(cres[c]) >= 1

\* C7: each module object is created once, and no caller holds or has
\* called an exported function unless the build has finished.
C7_BuildBeforeInvoke ==
    /\ Len(mods) <= 2 /\ nextObj <= 3
    /\ \A c \in Callers :
          (cpc[c] = "resolved" \/ Len(cres[c]) > 0) => pc = "done"

C7_Witness ==
    /\ pc = "done"
    /\ \E c \in Callers : cpc[c] = "resolved" /\ Len(cres[c]) = 0

\* C8: the built module tree is finite and acyclic, has exactly one
\* parentless node (the root), every other node has one parent, the names
\* within a node are unique, and every function of the layout is bound in
\* some node.
C8_WellFormedTree ==
    Built =>
       /\ IsFiniteSet(ModIds(mods))
       /\ \A m \in ModIds(mods) : IsFiniteSet(mods[m].dict)
       /\ \A m \in ModIds(mods) : m \notin Below(mods, m)
       /\ {m \in ModIds(mods) : Parents(mods, m) = {}} = {1}
       /\ \A m \in ModIds(mods) \ {1} : Cardinality(Parents(mods, m)) = 1
       /\ \A m \in ModIds(mods) :
             \A b1, b2 \in mods[m].dict : b1.key = b2.key => b1 = b2
       /\ \A i \in DOMAIN Layout :
             \E m \in ModIds(mods) : \E b \in mods[m].dict :
                b.val.kind = "fn" /\ b.val.impl = Layout[i].func

C8_Witness ==
    /\ pc = "built"
    /\ Children(mods, 1) = {2}
    /\ Children(mods, 2) = {}

\* C9: two calls of the same function return the same text, whichever
\* caller made them, through whichever path, and whatever was called before.
C9_SameResultEveryCall ==
    \A r1, r2 \in Calls : r1.impl = r2.impl => r1.text = r2.text

C9_Witness ==
    \E c1, c2 \in Callers :
       /\ c1 # c2
       /\ Len(cres[c1]) >= 2
       /\ cres[c1][1].path = cres[c1][2].path
       /\ Len(cres[c2]) >= 1
       /\ cres[c2][1].path # cres[c1][1].path

====
